---- MODULE Spec2Model ----
(***************************************************************************)
(* handy-table: the table editor (DataEditor), the text wrapping engine    *)
(* (wrapText), the size resolver and the merge-aware grid line renderer    *)
(* (HandDrawnTable), and the table generation request (App).               *)
(*                                                                         *)
(* Conventions                                                             *)
(*  - a JavaScript string is a sequence of one-character strings, so that  *)
(*    split, join, length and concatenation are computed, not assumed;     *)
(*  - rows, columns and override keys are 0-based as in the source; a grid *)
(*    is a sequence of rows, read through At(d, r, c);                     *)
(*  - an absent optional number (ownerRow, ownerCol) is `undefined`;       *)
(*    `hidden` is read by the source only for truthiness, so absent and    *)
(*    false are the one value FALSE;                                       *)
(*  - the cell's `id` is a random token no modelled operation reads.       *)
(***************************************************************************)
EXTENDS Integers, Sequences, FiniteSets, TLC

VARIABLES data, customColumnWidths, customRowHeights, selection, isSelecting,
          last, wrapIn, wrapOut, roughness, paths,
          status, inflight, timers, rawData, resizing,
          widthScale, padding, colWidths, rowHeights, xPositions, yPositions,
          heap, dataRef

vars == <<data, customColumnWidths, customRowHeights, selection, isSelecting,
          last, wrapIn, wrapOut, roughness, paths,
          status, inflight, timers, rawData, resizing,
          widthScale, padding, colWidths, rowHeights, xPositions, yPositions,
          heap, dataRef>>

editorVars == <<data, customColumnWidths, customRowHeights, selection, isSelecting>>

\* the inputs and outputs of the renderer's pure functions
pureVars == <<wrapIn, wrapOut, roughness, paths>>

\* the generation request: the status flag, the requests not yet resolved,
\* the pending setTimeout callbacks that put the flag back to IDLE, and the
\* parsed response of the request that resolved last
genVars == <<status, inflight, timers, rawData>>

\* the inputs and outputs of the size resolver (colWidths, rowHeights,
\* xPositions, yPositions of HandDrawnTable)
layoutVars == <<widthScale, padding, colWidths, rowHeights, xPositions, yPositions>>

\* the arrays and cell objects behind the grid and the reference React holds
\* as `data`; followed only where object identity is examined, empty elsewhere
heapVars == <<heap, dataRef>>

(***************************************************************************)
(* Bounds of the model.                                                    *)
(***************************************************************************)
MaxRows == 2
MaxCols == 2
MaxGridText == 7

(***************************************************************************)
(* Text.                                                                   *)
(***************************************************************************)
NL == "\n"
SP == " "
EmptyText == << >>

\* "New Cell", the text of a cell created on an empty table, as one token
NewCellText == <<"N">>

(***************************************************************************)
(* Cells and grids (types.ts).                                             *)
(***************************************************************************)
undefined == -1

TableCell(value) ==
    [value |-> value, rowSpan |-> 1, colSpan |-> 1,
     hidden |-> FALSE, ownerRow |-> undefined, ownerCol |-> undefined]

RowCount(d) == Len(d)
ColCount(d) == IF Len(d) = 0 THEN 0 ELSE Len(d[1])
At(d, r, c) == d[r + 1][c + 1]
InGrid(d, r, c) == r >= 0 /\ r < Len(d) /\ c >= 0 /\ c < Len(d[r + 1])

\* d with the cell at (r, c) replaced by cell
SetCell(d, r, c, cell) == [d EXCEPT ![r + 1][c + 1] = cell]

\* Array.prototype.filter((_, i) => i !== index)
FilterIndex(s, index) ==
    [i \in 1..(Len(s) - (IF index >= 0 /\ index < Len(s) THEN 1 ELSE 0)) |->
        IF i <= index THEN s[i] ELSE s[i + 1]]

NoSelection == [start |-> [r |-> undefined, c |-> undefined],
                end |-> [r |-> undefined, c |-> undefined]]

\* `last` names the operation that led to the state; an unmerge that directly
\* follows a merge is named "mergeCells,unmergeCells"
NoOp == "none"

\* getRange: the normalized selection rectangle
Min(a, b) == IF a < b THEN a ELSE b
Max(a, b) == IF a > b THEN a ELSE b
getRange ==
    [minR |-> Min(selection.start.r, selection.end.r),
     maxR |-> Max(selection.start.r, selection.end.r),
     minC |-> Min(selection.start.c, selection.end.c),
     maxC |-> Max(selection.start.c, selection.end.c)]

canMerge ==
    /\ selection # NoSelection
    /\ (getRange.maxR > getRange.minR \/ getRange.maxC > getRange.minC)

canUnmerge ==
    /\ selection # NoSelection
    /\ getRange.minR = getRange.maxR /\ getRange.minC = getRange.maxC
    /\ InGrid(data, getRange.minR, getRange.minC)
    /\ LET cell == At(data, getRange.minR, getRange.minC)
       IN cell.rowSpan > 1 \/ cell.colSpan > 1

(***************************************************************************)
(* The texts a user types into a cell and the grid the editor starts on.   *)
(***************************************************************************)
EditValues == {EmptyText, NewCellText}

InitData == << <<TableCell(NewCellText), TableCell(NewCellText)>>,
               <<TableCell(NewCellText), TableCell(NewCellText)>> >>

(***************************************************************************)
(* Editor operations (DataEditor).                                         *)
(***************************************************************************)
handleMouseDown(r, c) ==
    /\ InGrid(data, r, c) /\ ~At(data, r, c).hidden
    /\ selection' = [start |-> [r |-> r, c |-> c], end |-> [r |-> r, c |-> c]]
    /\ isSelecting' = TRUE
    /\ last' = "handleMouseDown"
    /\ UNCHANGED <<heapVars, pureVars, genVars, resizing, layoutVars, data, customColumnWidths, customRowHeights>>

handleMouseEnter(r, c) ==
    /\ InGrid(data, r, c) /\ ~At(data, r, c).hidden
    /\ isSelecting /\ selection # NoSelection
    /\ selection' = [selection EXCEPT !.end = [r |-> r, c |-> c]]
    /\ last' = "handleMouseEnter"
    /\ UNCHANGED <<heapVars, pureVars, genVars, resizing, layoutVars, data, customColumnWidths, customRowHeights, isSelecting>>

endSelect ==
    /\ isSelecting
    /\ isSelecting' = FALSE
    /\ last' = "endSelect"
    /\ UNCHANGED <<heapVars, pureVars, genVars, resizing, layoutVars, data, customColumnWidths, customRowHeights, selection>>

\* the number of characters the grid holds
RECURSIVE SumLen(_)
SumLen(s) == IF Len(s) = 0 THEN 0 ELSE Len(s[1].value) + SumLen(Tail(s))
RECURSIVE GridText(_)
GridText(d) == IF Len(d) = 0 THEN 0 ELSE SumLen(d[1]) + GridText(Tail(d))

handleCellChange(rowIndex, colIndex, value) ==
    /\ InGrid(data, rowIndex, colIndex) /\ ~At(data, rowIndex, colIndex).hidden
    /\ GridText(data) - Len(At(data, rowIndex, colIndex).value) + Len(value) <= MaxGridText
    /\ data' = SetCell(data, rowIndex, colIndex,
                       [At(data, rowIndex, colIndex) EXCEPT !.value = value])
    /\ last' = "handleCellChange"
    /\ UNCHANGED <<heapVars, pureVars, genVars, resizing, layoutVars, customColumnWidths, customRowHeights, selection, isSelecting>>

addRow ==
    /\ RowCount(data) < MaxRows
    /\ data' = IF Len(data) = 0
               THEN << <<TableCell(NewCellText)>> >>
               ELSE Append(data, [i \in 1..ColCount(data) |-> TableCell(EmptyText)])
    /\ last' = "addRow"
    /\ UNCHANGED <<heapVars, pureVars, genVars, resizing, layoutVars, customColumnWidths, customRowHeights, selection, isSelecting>>

\* addCol whose new cell goes to the header row only
addColHeaderOnly ==
    /\ ColCount(data) < MaxCols
    /\ data' = IF Len(data) = 0
               THEN << <<TableCell(NewCellText)>> >>
               ELSE [i \in 1..Len(data) |->
                        IF i = 1 THEN Append(data[i], TableCell(EmptyText)) ELSE data[i]]
    /\ last' = "addCol"
    /\ UNCHANGED <<heapVars, pureVars, genVars, resizing, layoutVars, customColumnWidths, customRowHeights, selection, isSelecting>>

addCol ==
    /\ ColCount(data) < MaxCols
    /\ data' = IF Len(data) = 0
               THEN << <<TableCell(NewCellText)>> >>
               ELSE [i \in 1..Len(data) |-> Append(data[i], TableCell(EmptyText))]
    /\ last' = "addCol"
    /\ UNCHANGED <<heapVars, pureVars, genVars, resizing, layoutVars, customColumnWidths, customRowHeights, selection, isSelecting>>

\* the button of the "Table is empty" branch
initializeTable ==
    /\ Len(data) = 0
    /\ data' = << <<TableCell(NewCellText)>> >>
    /\ last' = "initializeTable"
    /\ UNCHANGED <<heapVars, pureVars, genVars, resizing, layoutVars, customColumnWidths, customRowHeights, selection, isSelecting>>

\* ShiftOverrides that drops the removed index but renumbers nothing
ShiftOverridesStale(map, index) ==
    [k \in DOMAIN map \ {index} |-> map[k]]

\* the override map after row/column `index` is removed
ShiftOverrides(map, index) ==
    [k \in {j \in DOMAIN map : j < index} \cup {j - 1 : j \in {i \in DOMAIN map : i > index}} |->
        IF k < index THEN map[k] ELSE map[k + 1]]

removeRow(index) ==
    /\ index >= 0 /\ index < RowCount(data)
    /\ data' = FilterIndex(data, index)
    /\ customRowHeights' = ShiftOverrides(customRowHeights, index)
    /\ selection' = NoSelection
    /\ last' = "removeRow"
    /\ UNCHANGED <<heapVars, pureVars, genVars, resizing, layoutVars, customColumnWidths, isSelecting>>

\* removeCol without the test that turns rows of no cells into the empty grid
removeColKeepsRows(index) ==
    /\ index >= 0 /\ index < ColCount(data)
    /\ data' = [i \in 1..Len(data) |-> FilterIndex(data[i], index)]
    /\ customColumnWidths' = ShiftOverrides(customColumnWidths, index)
    /\ selection' = NoSelection
    /\ last' = "removeCol"
    /\ UNCHANGED <<heapVars, pureVars, genVars, resizing, layoutVars, customRowHeights, isSelecting>>

removeCol(index) ==
    /\ index >= 0 /\ index < ColCount(data)
    /\ LET newData == [i \in 1..Len(data) |-> FilterIndex(data[i], index)]
       IN data' = IF Len(newData) = 0 \/ Len(newData[1]) = 0 THEN << >> ELSE newData
    /\ customColumnWidths' = ShiftOverrides(customColumnWidths, index)
    /\ selection' = NoSelection
    /\ last' = "removeCol"
    /\ UNCHANGED <<heapVars, pureVars, genVars, resizing, layoutVars, customRowHeights, isSelecting>>

\* the loop of mergeCells that builds combinedValue, cell k of the rectangle
\* in row-major order, acc the value built so far
RECURSIVE CombineFrom(_, _, _, _)
CombineFrom(d, range, k, acc) ==
    LET w == range.maxC - range.minC + 1
        h == range.maxR - range.minR + 1
    IN IF k >= w * h THEN acc
       ELSE LET cell == At(d, range.minR + (k \div w), range.minC + (k % w))
            IN CombineFrom(d, range, k + 1,
                 IF ~cell.hidden /\ cell.value # EmptyText
                 THEN acc \o (IF acc # EmptyText THEN <<NL>> ELSE EmptyText) \o cell.value
                 ELSE acc)

\* combinedValue gathered column by column
RECURSIVE CombineByColumn(_, _, _, _)
CombineByColumn(d, range, k, acc) ==
    LET w == range.maxC - range.minC + 1
        h == range.maxR - range.minR + 1
    IN IF k >= w * h THEN acc
       ELSE LET cell == At(d, range.minR + (k % h), range.minC + (k \div h))
            IN CombineByColumn(d, range, k + 1,
                 IF ~cell.hidden /\ cell.value # EmptyText
                 THEN acc \o (IF acc # EmptyText THEN <<NL>> ELSE EmptyText) \o cell.value
                 ELSE acc)

combinedValueColumnMajor(d, range) == CombineByColumn(d, range, 0, EmptyText)

combinedValue(d, range) == CombineFrom(d, range, 0, EmptyText)

InRange(range, r, c) ==
    r >= range.minR /\ r <= range.maxR /\ c >= range.minC /\ c <= range.maxC

\* newData of mergeCells
MergedData(d, range) ==
    [i \in 1..Len(d) |-> [j \in 1..Len(d[i]) |->
        IF i - 1 = range.minR /\ j - 1 = range.minC
        THEN [d[i][j] EXCEPT !.value = combinedValue(d, range),
                             !.rowSpan = range.maxR - range.minR + 1,
                             !.colSpan = range.maxC - range.minC + 1,
                             !.hidden = FALSE,
                             !.ownerRow = undefined,
                             !.ownerCol = undefined]
        ELSE IF InRange(range, i - 1, j - 1)
        THEN [d[i][j] EXCEPT !.hidden = TRUE,
                             !.rowSpan = 1,
                             !.colSpan = 1,
                             !.ownerRow = range.minR,
                             !.ownerCol = range.minC,
                             !.value = EmptyText]
        ELSE d[i][j]]]

mergeCells ==
    /\ canMerge
    /\ InGrid(data, getRange.minR, getRange.minC)
    /\ InGrid(data, getRange.maxR, getRange.maxC)
    /\ data' = MergedData(data, getRange)
    /\ selection' = [start |-> [r |-> getRange.minR, c |-> getRange.minC],
                     end |-> [r |-> getRange.minR, c |-> getRange.minC]]
    /\ last' = "mergeCells"
    /\ UNCHANGED <<heapVars, pureVars, genVars, resizing, layoutVars, customColumnWidths, customRowHeights, isSelecting>>

\* UnmergedData that unhides the cells but leaves their owner coordinates
UnmergedDataKeepsOwner(d, minR, minC) ==
    LET rSpan == At(d, minR, minC).rowSpan
        cSpan == At(d, minR, minC).colSpan
    IN [i \in 1..Len(d) |-> [j \in 1..Len(d[i]) |->
        IF i - 1 = minR /\ j - 1 = minC
        THEN [d[i][j] EXCEPT !.rowSpan = 1, !.colSpan = 1]
        ELSE IF /\ i - 1 >= minR /\ i - 1 < minR + rSpan
                /\ j - 1 >= minC /\ j - 1 < minC + cSpan
        THEN [d[i][j] EXCEPT !.hidden = FALSE]
        ELSE d[i][j]]]

\* newData of unmergeCells, master cell at (minR, minC)
UnmergedData(d, minR, minC) ==
    LET rSpan == At(d, minR, minC).rowSpan
        cSpan == At(d, minR, minC).colSpan
    IN [i \in 1..Len(d) |-> [j \in 1..Len(d[i]) |->
        IF i - 1 = minR /\ j - 1 = minC
        THEN [d[i][j] EXCEPT !.rowSpan = 1, !.colSpan = 1]
        ELSE IF /\ i - 1 >= minR /\ i - 1 < minR + rSpan
                /\ j - 1 >= minC /\ j - 1 < minC + cSpan
        THEN [d[i][j] EXCEPT !.hidden = FALSE,
                             !.ownerRow = undefined,
                             !.ownerCol = undefined]
        ELSE d[i][j]]]

\* The Unmerge button is disabled unless canUnmerge. A span that reaches
\* beyond the grid makes newData[r][c] fault before setData: no state change.
unmergeCells ==
    /\ canUnmerge
    /\ LET cell == At(data, getRange.minR, getRange.minC)
       IN InGrid(data, getRange.minR + cell.rowSpan - 1, getRange.minC + cell.colSpan - 1)
    /\ data' = UnmergedData(data, getRange.minR, getRange.minC)
    /\ last' = IF last = "mergeCells" THEN "mergeCells,unmergeCells" ELSE "unmergeCells"
    /\ UNCHANGED <<heapVars, pureVars, genVars, resizing, layoutVars, customColumnWidths, customRowHeights, selection, isSelecting>>

(***************************************************************************)
(* The editor: the grid and the style configuration as App holds them      *)
(* while the "edit" tab shows the DataEditor.                              *)
(***************************************************************************)
NoCall == [text |-> EmptyText, maxWidth |-> 0, fontSize |-> 0]

\* DEFAULT_CONFIG.roughness = 1.5, in tenths
DefaultRoughness == 15

EmptyMap == [k \in {} |-> 0]

\* GenerateStatus
IDLE == "IDLE"
LOADING == "LOADING"
SUCCESS == "SUCCESS"
ERROR == "ERROR"

\* useState<ResizeState | null>(null)
NoResize == [type |-> "none", index |-> undefined, startPos |-> 0, startSize |-> 0]

\* lengths handed to the resolver are in tenths of a pixel, and widthScale in
\* tenths, so that 0.1 steps of the scale and fontSize * 1.4 are exact
DefaultWidthScale == 10
DefaultPadding == 10

\* no request, no resize session, DEFAULT_CONFIG's scale and padding, and
\* nothing laid out yet
AppAtRest ==
    /\ status = IDLE /\ inflight = 0 /\ timers = 0 /\ rawData = << >>
    /\ resizing = NoResize
    /\ widthScale = DefaultWidthScale /\ padding = DefaultPadding
    /\ colWidths = << >> /\ rowHeights = << >>
    /\ xPositions = << >> /\ yPositions = << >>
    /\ heap = << >> /\ dataRef = 0

Init ==
    /\ data = InitData
    /\ customColumnWidths = EmptyMap
    /\ customRowHeights = EmptyMap
    /\ selection = NoSelection
    /\ isSelecting = FALSE
    /\ last = NoOp
    /\ wrapIn = NoCall
    /\ wrapOut = << >>
    /\ roughness = DefaultRoughness
    /\ paths = {}
    /\ AppAtRest

Rows == 0..(MaxRows - 1)
Cols == 0..(MaxCols - 1)

Next ==
    \/ \E r \in Rows, c \in Cols : handleMouseDown(r, c)
    \/ \E r \in Rows, c \in Cols : handleMouseEnter(r, c)
    \/ endSelect
    \/ \E r \in Rows, c \in Cols, v \in EditValues : handleCellChange(r, c, v)
    \/ addRow
    \/ addCol
    \/ initializeTable
    \/ \E index \in Rows : removeRow(index)
    \/ \E index \in Cols : removeCol(index)
    \/ mergeCells
    \/ unmergeCells

Spec == Init /\ [][Next]_vars

(***************************************************************************)
(* Text Wrapping Engine (wrapText).                                        *)
(***************************************************************************)
\* String.prototype.split(sep) for a one-character separator: the pieces
\* between separators, empty pieces included
RECURSIVE SplitFrom(_, _, _, _, _)
SplitFrom(s, sep, i, cur, out) ==
    IF i > Len(s) THEN Append(out, cur)
    ELSE IF s[i] = sep THEN SplitFrom(s, sep, i + 1, EmptyText, Append(out, cur))
    ELSE SplitFrom(s, sep, i + 1, Append(cur, s[i]), out)

Split(s, sep) == SplitFrom(s, sep, 1, EmptyText, << >>)

\* width < maxWidth for width = n * charWidth, charWidth = fontSize * 0.55,
\* in hundredths (for integer maxWidth the doubles compare as the exact values)
WidthBelow(n, fontSize, maxWidth) == n * fontSize * 55 < maxWidth * 100

\* WrapWords that starts the new line without pushing the full one
RECURSIVE WrapWordsDropsLine(_, _, _, _, _, _)
WrapWordsDropsLine(words, i, currentLine, lines, maxWidth, fontSize) ==
    IF i > Len(words) THEN Append(lines, currentLine)
    ELSE IF WidthBelow(Len(currentLine) + 1 + Len(words[i]), fontSize, maxWidth)
    THEN WrapWordsDropsLine(words, i + 1, currentLine \o <<SP>> \o words[i], lines, maxWidth, fontSize)
    ELSE WrapWordsDropsLine(words, i + 1, words[i], lines, maxWidth, fontSize)

\* WrapWords whose width estimate leaves out the joining space
RECURSIVE WrapWordsNoSpace(_, _, _, _, _, _)
WrapWordsNoSpace(words, i, currentLine, lines, maxWidth, fontSize) ==
    IF i > Len(words) THEN Append(lines, currentLine)
    ELSE IF WidthBelow(Len(currentLine) + Len(words[i]), fontSize, maxWidth)
    THEN WrapWordsNoSpace(words, i + 1, currentLine \o <<SP>> \o words[i], lines, maxWidth, fontSize)
    ELSE WrapWordsNoSpace(words, i + 1, words[i], Append(lines, currentLine), maxWidth, fontSize)

\* the for loop over words[i], i >= 1 (here i + 1), and the final push
RECURSIVE WrapWords(_, _, _, _, _, _)
WrapWords(words, i, currentLine, lines, maxWidth, fontSize) ==
    IF i > Len(words) THEN Append(lines, currentLine)
    ELSE IF WidthBelow(Len(currentLine) + 1 + Len(words[i]), fontSize, maxWidth)
    THEN WrapWords(words, i + 1, currentLine \o <<SP>> \o words[i], lines, maxWidth, fontSize)
    ELSE WrapWords(words, i + 1, words[i], Append(lines, currentLine), maxWidth, fontSize)

\* paragraphs.forEach, paragraph k, finalLines built so far
RECURSIVE WrapParagraphs(_, _, _, _, _)
WrapParagraphs(paragraphs, k, finalLines, maxWidth, fontSize) ==
    IF k > Len(paragraphs) THEN finalLines
    ELSE IF paragraphs[k] = EmptyText
    THEN WrapParagraphs(paragraphs, k + 1, Append(finalLines, <<SP>>), maxWidth, fontSize)
    ELSE LET words == Split(paragraphs[k], SP)
         IN WrapParagraphs(paragraphs, k + 1,
                WrapWords(words, 2, words[1], finalLines, maxWidth, fontSize),
                maxWidth, fontSize)

\* wrapText without the early return for the empty string
wrapTextNoEarlyReturn(text, maxWidth, fontSize) ==
    WrapParagraphs(Split(text, NL), 1, << >>, maxWidth, fontSize)

wrapText(text, maxWidth, fontSize) ==
    IF text = EmptyText THEN << >>
    ELSE WrapParagraphs(Split(text, NL), 1, << >>, maxWidth, fontSize)

(***************************************************************************)
(* Merge-Aware Line Suppressor (HandDrawnTable: getCellAt, paths).         *)
(***************************************************************************)
null == [rowSpan |-> 0, colSpan |-> 0, r |-> undefined, c |-> undefined]

\* getCellAt that returns a hidden cell itself instead of its owner
getCellAtNoOwner(d, r, c) ==
    IF r < 0 \/ r >= Len(d) \/ c < 0 \/ c >= Len(d[1]) THEN null
    ELSE [rowSpan |-> At(d, r, c).rowSpan, colSpan |-> At(d, r, c).colSpan, r |-> r, c |-> c]

\* the effective cell at (r, c): the cell itself, or the owner of a hidden cell
getCellAt(d, r, c) ==
    IF r < 0 \/ r >= Len(d) \/ c < 0 \/ c >= Len(d[1]) THEN null
    ELSE LET cell == At(d, r, c)
         IN IF ~cell.hidden
            THEN [rowSpan |-> cell.rowSpan, colSpan |-> cell.colSpan, r |-> r, c |-> c]
            ELSE LET ownerR == IF cell.ownerRow # undefined THEN cell.ownerRow ELSE r
                     ownerC == IF cell.ownerCol # undefined THEN cell.ownerCol ELSE c
                 IN [rowSpan |-> At(d, ownerR, ownerC).rowSpan,
                     colSpan |-> At(d, ownerR, ownerC).colSpan,
                     r |-> ownerR, c |-> ownerC]

\* shouldDrawH that also suppresses the lower edge of the cell above
shouldDrawHInclusive(d, r, c) ==
    IF r = 0 \/ r = RowCount(d) THEN TRUE
    ELSE LET cellAbove == getCellAt(d, r - 1, c)
         IN ~(cellAbove # null /\ cellAbove.r + cellAbove.rowSpan >= r)

\* shouldDraw of the horizontal segment on grid line r over column c
shouldDrawH(d, r, c) ==
    IF r = 0 \/ r = RowCount(d) THEN TRUE
    ELSE LET cellAbove == getCellAt(d, r - 1, c)
         IN ~(cellAbove # null /\ cellAbove.r + cellAbove.rowSpan > r)

\* shouldDraw of the vertical segment on grid line c beside row r
shouldDrawV(d, c, r) ==
    IF c = 0 \/ c = ColCount(d) THEN TRUE
    ELSE LET cellLeft == getCellAt(d, r, c - 1)
         IN ~(cellLeft # null /\ cellLeft.c + cellLeft.colSpan > c)

\* the keys of the <path> elements: h-r-c, v-c-r and, when roughness > 0.5
\* (rough, in tenths), the second strokes h-r-c-d and v-c-r-d
Paths(d, rough) ==
    LET rowCount == RowCount(d)
        colCount == ColCount(d)
        strokes == IF rough > 5 THEN {"", "d"} ELSE {""}
        horizontal == {s \in (0..rowCount) \X (0..(colCount - 1)) : shouldDrawH(d, s[1], s[2])}
        vertical == {s \in (0..colCount) \X (0..(rowCount - 1)) : shouldDrawV(d, s[1], s[2])}
    IN {<<"h", s[1], s[2], k>> : s \in horizontal, k \in strokes}
       \cup {<<"v", s[1], s[2], k>> : s \in vertical, k \in strokes}

(***************************************************************************)
(* The renderer on the "preview" tab: every grid the data model allows, up *)
(* to RenderRows x RenderCols, is drawn once.                              *)
(***************************************************************************)
RenderRows == 3
RenderCols == 2

CellsOf(rect) == (rect.r..(rect.r + rect.h - 1)) \X (rect.c..(rect.c + rect.w - 1))

\* every partition of an R x C grid into span rectangles: position k (in
\* row-major order), when still free, gets each rectangle that fits there
RECURSIVE Tilings(_, _, _, _, _)
Tilings(R, C, k, covered, rects) ==
    IF k = R * C THEN {rects}
    ELSE IF <<k \div C, k % C>> \in covered THEN Tilings(R, C, k + 1, covered, rects)
    ELSE LET fits == {rect \in {[r |-> k \div C, c |-> k % C, h |-> h, w |-> w] :
                                   h \in 1..(R - (k \div C)), w \in 1..(C - (k % C))} :
                         CellsOf(rect) \cap covered = {}}
         IN UNION {Tilings(R, C, k + 1, covered \cup CellsOf(rect), Append(rects, rect)) :
                      rect \in fits}

\* the grid of a partition: one master cell per rectangle, the rest hidden
GridOf(R, C, rects) ==
    [i \in 1..R |-> [j \in 1..C |->
        LET rect == rects[CHOOSE x \in 1..Len(rects) : <<i - 1, j - 1>> \in CellsOf(rects[x])]
        IN IF rect.r = i - 1 /\ rect.c = j - 1
           THEN [value |-> NewCellText, rowSpan |-> rect.h, colSpan |-> rect.w,
                 hidden |-> FALSE, ownerRow |-> undefined, ownerCol |-> undefined]
           ELSE [value |-> EmptyText, rowSpan |-> 1, colSpan |-> 1,
                 hidden |-> TRUE, ownerRow |-> rect.r, ownerCol |-> rect.c]]]

ModelGrids ==
    {<< >>} \cup UNION {{GridOf(R, C, t) : t \in Tilings(R, C, 0, {}, << >>)} :
                          R \in 1..RenderRows, C \in 1..RenderCols}

\* a hidden cell whose owner lies outside the grid makes getCellAt fault
OwnersInGrid(d) ==
    \A r \in 0..(RowCount(d) - 1), c \in 0..(ColCount(d) - 1) :
        At(d, r, c).hidden =>
            InGrid(d, IF At(d, r, c).ownerRow # undefined THEN At(d, r, c).ownerRow ELSE r,
                      IF At(d, r, c).ownerCol # undefined THEN At(d, r, c).ownerCol ELSE c)

renderPaths ==
    /\ last = NoOp
    /\ OwnersInGrid(data)
    /\ paths' = Paths(data, roughness)
    /\ last' = "paths"
    /\ UNCHANGED <<heapVars, editorVars, genVars, resizing, layoutVars, wrapIn, wrapOut, roughness>>

InitRender ==
    /\ data \in ModelGrids
    /\ customColumnWidths = EmptyMap
    /\ customRowHeights = EmptyMap
    /\ selection = NoSelection
    /\ isSelecting = FALSE
    /\ last = NoOp
    /\ wrapIn = NoCall
    /\ wrapOut = << >>
    /\ roughness \in {5, DefaultRoughness}
    /\ paths = {}
    /\ AppAtRest

NextRender == renderPaths

SpecRender == InitRender /\ [][NextRender]_vars

(***************************************************************************)
(* wrapText on its own: every text over a small alphabet up to MaxTextLen  *)
(* characters, and the sentence of the documented example, at a range of   *)
(* widths and both font sizes of the renderer.                             *)
(***************************************************************************)
MaxTextLen == 5

Alphabet == {"a", "b", SP, NL}

Texts == UNION {[1..n -> Alphabet] : n \in 0..MaxTextLen}

\* "The quick brown fox"
Fox == <<"T", "h", "e", SP, "q", "u", "i", "c", "k", SP,
         "b", "r", "o", "w", "n", SP, "f", "o", "x">>

ShortWidths == {1, 9, 20, 30, 45, 60}
FoxWidths == {60, 79, 80, 97, 110, 132, 133, 200}

\* fontSize: 20 for the header row, 16 for the others
FontSizes == {16, 20}

callWrapText ==
    /\ last = NoOp
    /\ wrapOut' = wrapText(wrapIn.text, wrapIn.maxWidth, wrapIn.fontSize)
    /\ last' = "wrapText"
    /\ UNCHANGED <<heapVars, editorVars, genVars, resizing, layoutVars, wrapIn, roughness, paths>>

InitWrap ==
    /\ data = << >>
    /\ customColumnWidths = EmptyMap
    /\ customRowHeights = EmptyMap
    /\ selection = NoSelection
    /\ isSelecting = FALSE
    /\ last = NoOp
    /\ \/ wrapIn \in [text : Texts, maxWidth : ShortWidths, fontSize : FontSizes]
       \/ wrapIn \in [text : {Fox}, maxWidth : FoxWidths, fontSize : FontSizes]
    /\ wrapOut = << >>
    /\ roughness = DefaultRoughness
    /\ paths = {}
    /\ AppAtRest

NextWrap == callWrapText

SpecWrap == InitWrap /\ [][NextWrap]_vars

(***************************************************************************)
(* Properties of the line suppressor, checked under SpecRender.            *)
(***************************************************************************)
Positions(d) == (0..(RowCount(d) - 1)) \X (0..(ColCount(d) - 1))

\* the non-hidden cells that span more than one position
MergedMasters(d) ==
    {p \in Positions(d) : /\ ~At(d, p[1], p[2]).hidden
                          /\ (At(d, p[1], p[2]).rowSpan > 1 \/ At(d, p[1], p[2]).colSpan > 1)}

Drawn(kind, line, along) == <<kind, line, along, "">> \in paths
Stroked(kind, line, along) == \E k \in {"", "d"} : <<kind, line, along, k>> \in paths

\* C4: once a grid of the data model is rendered, no horizontal or vertical
\* stroke lies strictly inside a merged rectangle, and every unit segment on
\* the four sides of a merged rectangle is drawn.
C4_MergedRectangleLines ==
    last = "paths" =>
        \A p \in MergedMasters(data) :
            LET r0 == p[1]
                c0 == p[2]
                h == At(data, r0, c0).rowSpan
                w == At(data, r0, c0).colSpan
            IN /\ \A r \in (r0 + 1)..(r0 + h - 1), c \in c0..(c0 + w - 1) : ~Stroked("h", r, c)
               /\ \A c \in (c0 + 1)..(c0 + w - 1), r \in r0..(r0 + h - 1) : ~Stroked("v", c, r)
               /\ \A c \in c0..(c0 + w - 1) : Drawn("h", r0, c) /\ Drawn("h", r0 + h, c)
               /\ \A r \in r0..(r0 + h - 1) : Drawn("v", c0, r) /\ Drawn("v", c0 + w, r)

C4_Witness ==
    /\ last = "paths"
    /\ RowCount(data) = 3 /\ ColCount(data) = 2
    /\ At(data, 0, 0).rowSpan = 2 /\ At(data, 0, 0).colSpan = 2
    /\ At(data, 2, 0).colSpan = 2
    /\ ~Drawn("h", 1, 1) /\ ~Drawn("v", 1, 0) /\ Drawn("h", 2, 1) /\ ~Drawn("v", 1, 2)

\* the position of the cell that owns position (r, c): the position itself
\* for a visible cell, the back-reference of a hidden one
OwnerPosition(d, r, c) ==
    IF At(d, r, c).hidden THEN <<At(d, r, c).ownerRow, At(d, r, c).ownerCol>> ELSE <<r, c>>

\* C5: the horizontal segment at grid line r, column c is drawn if r = 0 or
\* r = rowCount; otherwise it is suppressed exactly when the owner of
\* position (r-1, c) has ownerRow + rowSpan > r. Vertical segments follow
\* the same rule with columns and colSpan.
C5_SegmentRule ==
    last = "paths" =>
        /\ \A r \in 0..RowCount(data), c \in 0..(ColCount(data) - 1) :
              Drawn("h", r, c) <=>
                 \/ r = 0
                 \/ r = RowCount(data)
                 \/ LET o == OwnerPosition(data, r - 1, c)
                    IN ~(o[1] + At(data, o[1], o[2]).rowSpan > r)
        /\ \A c \in 0..ColCount(data), r \in 0..(RowCount(data) - 1) :
              Drawn("v", c, r) <=>
                 \/ c = 0
                 \/ c = ColCount(data)
                 \/ LET o == OwnerPosition(data, r, c - 1)
                    IN ~(o[2] + At(data, o[1], o[2]).colSpan > c)

C5_Witness ==
    /\ last = "paths"
    /\ RowCount(data) = 3 /\ ColCount(data) = 2
    /\ At(data, 0, 1).rowSpan = 3 /\ At(data, 2, 1).hidden
    /\ ~Drawn("h", 2, 1) /\ Drawn("h", 2, 0) /\ Drawn("h", 3, 1) /\ Drawn("v", 1, 2)

(***************************************************************************)
(* Properties of wrapText, checked under SpecWrap.                         *)
(***************************************************************************)
\* the words of a text: the maximal runs of characters other than space and
\* newline, in order
RECURSIVE WordsFrom(_, _, _)
WordsFrom(s, cur, out) ==
    IF Len(s) = 0 THEN (IF cur = EmptyText THEN out ELSE Append(out, cur))
    ELSE IF s[1] \in {SP, NL}
    THEN WordsFrom(Tail(s), EmptyText, IF cur = EmptyText THEN out ELSE Append(out, cur))
    ELSE WordsFrom(Tail(s), Append(cur, s[1]), out)

WordsOf(s) == WordsFrom(s, EmptyText, << >>)

RECURSIVE JoinWith(_, _)
JoinWith(lines, sep) ==
    IF Len(lines) = 0 THEN EmptyText
    ELSE IF Len(lines) = 1 THEN lines[1]
    ELSE lines[1] \o <<sep>> \o JoinWith(Tail(lines), sep)

\* C9: for every text and positive maximum width, the output lines joined
\* by separators hold exactly the words of the input, in order and once
\* each (so no word is split over two lines), and a word too wide for the
\* maximum width is alone on its line.
C9_WrapKeepsWords ==
    (last = "wrapText" /\ wrapIn.maxWidth > 0) =>
        /\ WordsOf(JoinWith(wrapOut, NL)) = WordsOf(wrapIn.text)
        /\ \A i \in 1..Len(wrapOut) :
              LET ws == WordsOf(wrapOut[i])
              IN \A j \in 1..Len(ws) :
                    ~WidthBelow(Len(ws[j]), wrapIn.fontSize, wrapIn.maxWidth)
                        => wrapOut[i] = ws[j]

C9_Witness ==
    /\ last = "wrapText"
    /\ wrapIn.text = <<"a", SP, "b", SP, "a">>
    /\ wrapIn.maxWidth = 30 /\ wrapIn.fontSize = 16
    /\ wrapOut = << <<"a", SP, "b">>, <<"a">> >>

FoxWords == << <<"T", "h", "e">>, <<"q", "u", "i", "c", "k">>,
               <<"b", "r", "o", "w", "n">>, <<"f", "o", "x">> >>

\* some k consecutive words of the sentence, joined by spaces, are narrower
\* than maxWidth by wrapText's width estimate
FoxFits(k, fontSize, maxWidth) ==
    \E i \in 1..(Len(FoxWords) - k + 1) :
        WidthBelow(Len(JoinWith(SubSeq(FoxWords, i, i + k - 1), SP)), fontSize, maxWidth)

\* C10: "The quick brown fox" at font size 16 and a maximum width that fits
\* two of its words on a line but not three wraps to exactly the two lines
\* "The quick" and "brown fox".
C10_FoxTwoLines ==
    (/\ last = "wrapText"
     /\ wrapIn.text = Fox
     /\ wrapIn.fontSize = 16
     /\ FoxFits(2, 16, wrapIn.maxWidth)
     /\ ~FoxFits(3, 16, wrapIn.maxWidth)) =>
        wrapOut = << JoinWith(SubSeq(FoxWords, 1, 2), SP), JoinWith(SubSeq(FoxWords, 3, 4), SP) >>

C10_Witness ==
    /\ last = "wrapText"
    /\ wrapIn.text = Fox /\ wrapIn.fontSize = 16 /\ wrapIn.maxWidth = 132
    /\ FoxFits(2, 16, 132) /\ ~FoxFits(3, 16, 132)
    /\ Len(wrapOut) = 2

(***************************************************************************)
(* Invariants of the data model, checked under Spec.                       *)
(***************************************************************************)
\* the span rectangle of the cell at (i, j) covers position (r, c)
Covers(d, i, j, r, c) ==
    /\ i <= r /\ r < i + At(d, i, j).rowSpan
    /\ j <= c /\ c < j + At(d, i, j).colSpan

\* C1: every hidden cell has rowSpan = colSpan = 1 and empty text, and its
\* ownerRow/ownerCol name a cell inside the grid that is not hidden and
\* whose span rectangle covers the hidden cell's position.
C1_HiddenCellsOwned ==
    \A p \in Positions(data) :
        LET cell == At(data, p[1], p[2])
        IN cell.hidden =>
            /\ cell.rowSpan = 1 /\ cell.colSpan = 1
            /\ cell.value = EmptyText
            /\ InGrid(data, cell.ownerRow, cell.ownerCol)
            /\ ~At(data, cell.ownerRow, cell.ownerCol).hidden
            /\ Covers(data, cell.ownerRow, cell.ownerCol, p[1], p[2])

\* C2: every grid position is covered by the span rectangle of exactly one
\* non-hidden cell.
C2_OneOwningRectangle ==
    \A p \in Positions(data) :
        Cardinality({q \in Positions(data) :
                        ~At(data, q[1], q[2]).hidden /\ Covers(data, q[1], q[2], p[1], p[2])}) = 1

\* C3: the grid is rectangular: every row has as many cells as row 0.
C3_Rectangular ==
    \A i \in 1..Len(data) : Len(data[i]) = Len(data[1])

C3_Witness ==
    /\ last = "removeCol"
    /\ RowCount(data) = 2 /\ ColCount(data) = 1
    /\ At(data, 1, 0).hidden

(***************************************************************************)
(* Merging on grids with distinguishable texts: the documented 2 x 2 grid  *)
(* A, B, C, D and a grid of two rows and MergeCols columns of letters in   *)
(* which every third cell is empty; cells are selected, merged, unmerged.  *)
(***************************************************************************)
MergeCols == 2

Letters == <<"A", "B", "C", "D", "E", "F", "G", "H", "I", "J", "K", "L", "M",
             "O", "P", "Q", "R", "S", "T", "U", "V", "W", "X", "Y", "Z">>

GridABCD == << <<TableCell(<<"A">>), TableCell(<<"B">>)>>,
               <<TableCell(<<"C">>), TableCell(<<"D">>)>> >>

LetterGrid ==
    [i \in 1..2 |-> [j \in 1..MergeCols |->
        LET k == (i - 1) * MergeCols + (j - 1)
        IN TableCell(IF k % 3 = 1 THEN EmptyText ELSE <<Letters[(k % Len(Letters)) + 1]>>)]]

InitMerge ==
    /\ data \in {GridABCD, LetterGrid}
    /\ customColumnWidths = EmptyMap
    /\ customRowHeights = EmptyMap
    /\ selection = NoSelection
    /\ isSelecting = FALSE
    /\ last = NoOp
    /\ wrapIn = NoCall
    /\ wrapOut = << >>
    /\ roughness = DefaultRoughness
    /\ paths = {}
    /\ AppAtRest

NextMerge ==
    \/ \E r \in 0..1, c \in 0..(MergeCols - 1) : handleMouseDown(r, c)
    \/ \E r \in 0..1, c \in 0..(MergeCols - 1) : handleMouseEnter(r, c)
    \/ endSelect
    \/ mergeCells
    \/ unmergeCells

SpecMerge == InitMerge /\ [][NextMerge]_vars

(***************************************************************************)
(* Removing rows and columns under size overrides: a ShiftSize x ShiftSize *)
(* grid with every combination of width and height overrides.              *)
(***************************************************************************)
ShiftSize == 3

ShiftIndex == 0..(ShiftSize - 1)

OverrideValues == {100, 150}

OverrideMaps == UNION {[keys -> OverrideValues] : keys \in SUBSET ShiftIndex}

InitShift ==
    /\ data = [i \in 1..ShiftSize |-> [j \in 1..ShiftSize |-> TableCell(NewCellText)]]
    /\ customColumnWidths \in OverrideMaps
    /\ customRowHeights \in OverrideMaps
    /\ selection = NoSelection
    /\ isSelecting = FALSE
    /\ last = NoOp
    /\ wrapIn = NoCall
    /\ wrapOut = << >>
    /\ roughness = DefaultRoughness
    /\ paths = {}
    /\ AppAtRest

NextShift ==
    \/ \E index \in ShiftIndex : removeRow(index)
    \/ \E index \in ShiftIndex : removeCol(index)

SpecShift == InitShift /\ [][NextShift]_vars

(***************************************************************************)
(* Properties of removeRow/removeCol on the overrides, under SpecShift.    *)
(***************************************************************************)
\* new is old with index k removed: overrides below k stay, overrides above
\* k move down by one, nothing else is present
ShiftedDown(old, new, k) ==
    /\ \A j \in DOMAIN old :
          /\ j < k => (j \in DOMAIN new /\ new[j] = old[j])
          /\ j > k => ((j - 1) \in DOMAIN new /\ new[j - 1] = old[j])
    /\ \A i \in DOMAIN new :
          \/ i < k /\ i \in DOMAIN old
          \/ i >= k /\ (i + 1) \in DOMAIN old

\* C6: removeRow(k) on the row heights and removeCol(k) on the column
\* widths keep every override below k, move every override above k down by
\* one with its value and drop the override at k; removing column 1 under
\* {0:100, 2:150} gives {0:100, 1:150}.
C6_OverridesShift ==
    [][\A k \in ShiftIndex :
          /\ removeRow(k) => ShiftedDown(customRowHeights, customRowHeights', k)
          /\ removeCol(k) => ShiftedDown(customColumnWidths, customColumnWidths', k)
          /\ (removeCol(k) /\ k = 1 /\ customColumnWidths = (0 :> 100 @@ 2 :> 150))
                => customColumnWidths' = (0 :> 100 @@ 1 :> 150)]_vars

C6_Witness ==
    /\ last = "removeCol"
    /\ ColCount(data) = 2 /\ RowCount(data) = 3
    /\ customColumnWidths = (0 :> 100 @@ 1 :> 150)
    /\ customRowHeights = (0 :> 100 @@ 1 :> 150 @@ 2 :> 100)

(***************************************************************************)
(* Properties of mergeCells and unmergeCells.                              *)
(***************************************************************************)
\* the positions of the rectangle with top-left (r0, c0), h rows, w columns
Rectangle(r0, c0, h, w) == (r0..(r0 + h - 1)) \X (c0..(c0 + w - 1))

\* C7 (under SpecMerge): an unmerge that directly follows a merge leaves every
\* cell of the merged rectangle with rowSpan = colSpan = 1, not hidden and
\* without owner; the master keeps the concatenated text and the other
\* cells stay empty.
C7_MergeThenUnmerge ==
    [][last' = "mergeCells,unmergeCells" =>
          LET r0 == selection.start.r
              c0 == selection.start.c
              rect == Rectangle(r0, c0, At(data, r0, c0).rowSpan, At(data, r0, c0).colSpan)
          IN /\ Cardinality(rect) > 1
             /\ \A p \in rect :
                   LET cell == At(data', p[1], p[2])
                   IN /\ cell.rowSpan = 1 /\ cell.colSpan = 1
                      /\ ~cell.hidden
                      /\ cell.ownerRow = undefined /\ cell.ownerCol = undefined
                      /\ cell.value = IF p = <<r0, c0>> THEN At(data, r0, c0).value
                                      ELSE EmptyText]_vars

C7_Witness ==
    /\ last = "mergeCells,unmergeCells"
    /\ RowCount(data) = 2 /\ ColCount(data) = 2
    /\ \A p \in Positions(data) :
          /\ ~At(data, p[1], p[2]).hidden
          /\ At(data, p[1], p[2]).rowSpan = 1 /\ At(data, p[1], p[2]).colSpan = 1
    /\ \E i \in 1..Len(At(data, 0, 0).value) : At(data, 0, 0).value[i] = NL
    /\ \A p \in Positions(data) \ {<<0, 0>>} : At(data, p[1], p[2]).value = EmptyText

\* the cells of rows minR..maxR between columns minC and maxC, row by row
RECURSIVE RowMajor(_, _, _, _, _)
RowMajor(d, minR, maxR, minC, maxC) ==
    IF minR > maxR THEN << >>
    ELSE SubSeq(d[minR + 1], minC + 1, maxC + 1) \o RowMajor(d, minR + 1, maxR, minC, maxC)

IsVisibleText(cell) == ~cell.hidden /\ cell.value # EmptyText

ValuesOf(cells) == [i \in 1..Len(cells) |-> cells[i].value]

\* C8 (under SpecMerge): mergeCells on a selection of more than one cell
\* makes the top-left cell the only visible cell of the rectangle, spanning
\* it, with the non-empty values of the rectangle's visible cells joined by
\* newlines in row-major order; every other cell of the rectangle is hidden,
\* empty, of span 1 and owned by the top-left cell. The 2 x 2 grid A, B, C, D
\* merged whole gives "A\nB\nC\nD".
C8_MergeResult ==
    [][last' = "mergeCells" =>
          LET minR == IF selection.start.r < selection.end.r
                      THEN selection.start.r ELSE selection.end.r
              maxR == IF selection.start.r < selection.end.r
                      THEN selection.end.r ELSE selection.start.r
              minC == IF selection.start.c < selection.end.c
                      THEN selection.start.c ELSE selection.end.c
              maxC == IF selection.start.c < selection.end.c
                      THEN selection.end.c ELSE selection.start.c
              master == At(data', minR, minC)
          IN /\ (maxR - minR + 1) * (maxC - minC + 1) > 1
             /\ ~master.hidden
             /\ master.rowSpan = maxR - minR + 1
             /\ master.colSpan = maxC - minC + 1
             /\ master.value =
                   JoinWith(ValuesOf(SelectSeq(RowMajor(data, minR, maxR, minC, maxC),
                                               IsVisibleText)), NL)
             /\ \A p \in Rectangle(minR, minC, maxR - minR + 1, maxC - minC + 1) \ {<<minR, minC>>} :
                   LET cell == At(data', p[1], p[2])
                   IN /\ cell.hidden
                      /\ cell.value = EmptyText
                      /\ cell.rowSpan = 1 /\ cell.colSpan = 1
                      /\ cell.ownerRow = minR /\ cell.ownerCol = minC
             /\ (data = GridABCD /\ minR = 0 /\ minC = 0 /\ maxR = 1 /\ maxC = 1)
                   => master.value = <<"A", NL, "B", NL, "C", NL, "D">>]_vars

C8_Witness ==
    /\ last = "mergeCells"
    /\ RowCount(data) = 2 /\ ColCount(data) = 2
    /\ At(data, 0, 0).value = <<"A", NL, "B", NL, "C", NL, "D">>
    /\ At(data, 0, 0).rowSpan = 2 /\ At(data, 0, 0).colSpan = 2
    /\ At(data, 0, 1).hidden /\ At(data, 1, 0).hidden /\ At(data, 1, 1).hidden

(***************************************************************************)
(* Table generation: App.handleGenerate and generateTableData.  The        *)
(* request is sent when the button is clicked and resolves later, so the   *)
(* click, the resolution and the timer that resets the flag are separate   *)
(* steps.                                                                  *)
(***************************************************************************)
\* requests not yet resolved plus reset timers not yet fired
MaxOutstanding == 3
\* the largest 2-D array the service answers with
GenRows == 9
GenCols == 7

\* the string the service puts at row i, column j of an answer with n columns
GenValue(i, j, n) == <<Letters[(((i - 1) * n + (j - 1)) % Len(Letters)) + 1]>>

\* answers that parse to an array of arrays of strings: every rectangular
\* shape, and one whose rows differ in length
RawGrids ==
    {[i \in 1..R |-> [j \in 1..C |-> GenValue(i, j, C)]] : R \in 0..GenRows, C \in 0..GenCols}
        \cup {<< <<<<"A">>, <<"B">>>>, <<<<"C">>>> >>}

\* what ai.models.generateContent settles with: a rejection, a response
\* without text, text that is not JSON, JSON that is not an array, or JSON
\* rows
Responses ==
    {[kind |-> k, rows |-> << >>] : k \in {"reject", "notext", "invalid", "object"}}
        \cup {[kind |-> "rows", rows |-> g] : g \in RawGrids}

\* generateTableData: ok is FALSE when the promise rejects
generateTableData(response) ==
    IF response.kind = "rows"
    THEN [ok |-> TRUE,
          data |-> [i \in 1..Len(response.rows) |->
                       [j \in 1..Len(response.rows[i]) |-> TableCell(response.rows[i][j])]]]
    ELSE [ok |-> FALSE, data |-> << >>]

\* the click on the generate button, up to the await
handleGenerate ==
    /\ status # LOADING
    /\ inflight + timers < MaxOutstanding
    /\ status' = LOADING
    /\ inflight' = inflight + 1
    /\ last' = "handleGenerate"
    /\ UNCHANGED <<heapVars, editorVars, pureVars, timers, rawData, resizing, layoutVars>>

\* handleGenerate whose finally branch arms the timer after a success only
generateSettledTimerOnSuccess(response) ==
    /\ inflight > 0
    /\ LET result == generateTableData(response)
       IN IF result.ok
          THEN /\ data' = result.data
               /\ status' = SUCCESS
               /\ selection' = NoSelection /\ isSelecting' = FALSE /\ resizing' = NoResize
               /\ timers' = timers + 1
               /\ last' = "generateSucceeded"
          ELSE /\ status' = ERROR
               /\ last' = "generateFailed"
               /\ UNCHANGED <<heapVars, data, selection, isSelecting, resizing, timers>>
    /\ rawData' = response.rows
    /\ inflight' = inflight - 1
    /\ UNCHANGED <<heapVars, pureVars, customColumnWidths, customRowHeights, layoutVars>>

\* handleGenerate whose catch branch commits an empty table
generateSettledCommitsEmpty(response) ==
    /\ inflight > 0
    /\ LET result == generateTableData(response)
       IN IF result.ok
          THEN /\ data' = result.data
               /\ status' = SUCCESS
               /\ last' = "generateSucceeded"
          ELSE /\ data' = << >>
               /\ status' = ERROR
               /\ last' = "generateFailed"
    /\ rawData' = response.rows
    /\ selection' = NoSelection /\ isSelecting' = FALSE /\ resizing' = NoResize
    /\ inflight' = inflight - 1
    /\ timers' = timers + 1
    /\ UNCHANGED <<heapVars, pureVars, customColumnWidths, customRowHeights, layoutVars>>

\* handleGenerate from the await on: the try or the catch branch, then the
\* finally branch that arms the timer.  setActiveTab('preview') on success
\* unmounts the editor, whose selection and resize session are dropped.
generateSettled(response) ==
    /\ inflight > 0
    /\ LET result == generateTableData(response)
       IN IF result.ok
          THEN /\ data' = result.data
               /\ status' = SUCCESS
               /\ selection' = NoSelection /\ isSelecting' = FALSE /\ resizing' = NoResize
               /\ last' = "generateSucceeded"
          ELSE /\ status' = ERROR
               /\ last' = "generateFailed"
               /\ UNCHANGED <<heapVars, data, selection, isSelecting, resizing>>
    /\ rawData' = response.rows
    /\ inflight' = inflight - 1
    /\ timers' = timers + 1
    /\ UNCHANGED <<heapVars, pureVars, customColumnWidths, customRowHeights, layoutVars>>

\* the callback of setTimeout(() => setStatus(IDLE), 1000)
statusTimeout ==
    /\ timers > 0
    /\ status' = IDLE
    /\ timers' = timers - 1
    /\ last' = "statusTimeout"
    /\ UNCHANGED <<heapVars, editorVars, pureVars, inflight, rawData, resizing, layoutVars>>

InitGenerate == Init

NextGenerate ==
    \/ handleGenerate
    \/ \E response \in Responses : generateSettled(response)
    \/ statusTimeout

SpecGenerate == InitGenerate /\ [][NextGenerate]_vars

\* C11 (under SpecGenerate): at most one generation request is unresolved at
\* any time, whatever the order of clicks, resolutions and flag resets.
C11_SingleInFlight == inflight <= 1

\* C12 (under SpecGenerate): the step on which a request fails leaves the
\* grid and every field of the style configuration as they were and sets the
\* status to ERROR.
C12_FailureCommitsNothing ==
    [][last' = "generateFailed" =>
          /\ data' = data
          /\ customColumnWidths' = customColumnWidths
          /\ customRowHeights' = customRowHeights
          /\ roughness' = roughness /\ widthScale' = widthScale /\ padding' = padding
          /\ status' = ERROR]_vars

C12_Witness ==
    /\ last = "generateFailed" /\ status = ERROR
    /\ RowCount(data) = GenRows /\ ColCount(data) = 1

\* C20 (under SpecGenerate): the step on which a request succeeds replaces
\* the grid by one of the shape of the returned array, each cell holding the
\* returned string with spans 1, not hidden and without owner, and the grid
\* has at most 8 rows and 6 columns.
C20_GeneratedGrid ==
    [][last' = "generateSucceeded" =>
          /\ Len(data') = Len(rawData')
          /\ \A i \in 1..Len(data') :
                /\ Len(data'[i]) = Len(rawData'[i])
                /\ \A j \in 1..Len(data'[i]) :
                      /\ data'[i][j].value = rawData'[i][j]
                      /\ data'[i][j].rowSpan = 1 /\ data'[i][j].colSpan = 1
                      /\ ~data'[i][j].hidden
                      /\ data'[i][j].ownerRow = undefined
                      /\ data'[i][j].ownerCol = undefined
          /\ Len(data') <= 8
          /\ \A i \in 1..Len(data') : Len(data'[i]) <= 6]_vars

(***************************************************************************)
(* Span-Aware Size Resolver: colWidths, rowHeights, xPositions and         *)
(* yPositions of HandDrawnTable.  Lengths are in tenths of a pixel.        *)
(***************************************************************************)
\* n pixels
Px(n) == n * 10

baseCellWidth == 120

\* a length that is NaN (a sum with an undefined column width); wrapText
\* compares every line width with it and every comparison is false, as with
\* a negative width
NaN == -1

\* Math.max(...segments.map(s => s.length))
RECURSIVE MaxLength(_)
MaxLength(segments) ==
    IF Len(segments) = 0 THEN 0
    ELSE Max(Len(segments[1]), MaxLength(Tail(segments)))

\* `estimated` of a cell, in pixels
estimated(cell) == Min(250, Max(baseCellWidth, MaxLength(Split(cell.value, NL)) * 9))

\* autoWidths[i] after data.forEach, rows 1..n done
RECURSIVE AutoWidthFrom(_, _, _)
AutoWidthFrom(d, n, i) ==
    IF n = 0 THEN baseCellWidth
    ELSE LET cell == d[n][i]
             w == AutoWidthFrom(d, n - 1, i)
         IN IF cell.colSpan = 1 /\ ~cell.hidden THEN Max(w, estimated(cell)) ELSE w

autoWidths(d) == [i \in 1..ColCount(d) |-> AutoWidthFrom(d, Len(d), i)]

\* colWidths that lets a hidden or multi-column cell widen its column
colWidthsOfAllCells(d, custom, scale) ==
    IF Len(d) = 0 THEN << >>
    ELSE [i \in 1..ColCount(d) |->
             LET widest == CHOOSE w \in {estimated(d[n][i]) : n \in 1..Len(d)} :
                               \A n \in 1..Len(d) : estimated(d[n][i]) <= w
                 base == IF (i - 1) \in DOMAIN custom THEN custom[i - 1] ELSE widest
             IN base * (IF scale = 0 THEN 10 ELSE scale)]

\* colWidths that takes the override of the column to the right when the
\* column has none
colWidthsOfNextOverride(d, custom, scale) ==
    IF Len(d) = 0 THEN << >>
    ELSE [i \in 1..ColCount(d) |->
             LET base == IF (i - 1) \in DOMAIN custom THEN custom[i - 1]
                         ELSE IF i \in DOMAIN custom THEN custom[i]
                         ELSE autoWidths(d)[i]
             IN base * (IF scale = 0 THEN 10 ELSE scale)]

\* colWidths: pixels times tenths of the scale; a scale of 0 counts as 1
colWidthsOf(d, custom, scale) ==
    IF Len(d) = 0 THEN << >>
    ELSE [i \in 1..ColCount(d) |->
             LET base == IF (i - 1) \in DOMAIN custom THEN custom[i - 1]
                         ELSE autoWidths(d)[i]
             IN base * (IF scale = 0 THEN 10 ELSE scale)]

\* cellWidth of the cell at column i (1-based) spanning `span` columns
RECURSIVE SpanWidth(_, _, _)
SpanWidth(widths, i, span) ==
    IF span = 0 THEN 0
    ELSE IF i > Len(widths) THEN NaN
    ELSE LET rest == SpanWidth(widths, i + 1, span - 1)
         IN IF rest = NaN THEN NaN ELSE widths[i] + rest

\* lines.length of the cell at row r, column i (1-based)
LineCount(d, widths, pad, r, i) ==
    LET cell == d[r][i]
        fontSize == IF r = 1 THEN 20 ELSE 16
        cellWidth == SpanWidth(widths, i, cell.colSpan)
        contentWidth == IF cellWidth = NaN THEN NaN ELSE Max(0, cellWidth - Px(pad) * 2)
    IN Len(wrapText(cell.value, contentWidth, Px(fontSize)))

\* maxLines after row.forEach, cells 1..n done
RECURSIVE MaxLinesFrom(_, _, _, _, _)
MaxLinesFrom(d, widths, pad, r, n) ==
    IF n = 0 THEN 1
    ELSE LET m == MaxLinesFrom(d, widths, pad, r, n - 1)
         IN IF d[r][n].hidden \/ d[r][n].rowSpan > 1 THEN m
            ELSE Max(m, LineCount(d, widths, pad, r, n))

\* rowHeights that multiplies an override by the width scale
rowHeightsOfScaled(d, widths, custom, pad) ==
    [r \in 1..Len(d) |->
        IF (r - 1) \in DOMAIN custom /\ custom[r - 1] # 0 THEN custom[r - 1] * widthScale
        ELSE LET fontSize == IF r = 1 THEN 20 ELSE 16
                 maxLines == MaxLinesFrom(d, widths, pad, r, Len(d[r]))
             IN Max(Px(50), maxLines * fontSize * 14 + Px(pad) * 2)]

\* rowHeights: a truthy override verbatim, else from the wrapped line count;
\* fontSize * 1.4 pixels are fontSize * 14 tenths
rowHeightsOf(d, widths, custom, pad) ==
    [r \in 1..Len(d) |->
        IF (r - 1) \in DOMAIN custom /\ custom[r - 1] # 0 THEN Px(custom[r - 1])
        ELSE LET fontSize == IF r = 1 THEN 20 ELSE 16
                 maxLines == MaxLinesFrom(d, widths, pad, r, Len(d[r]))
             IN Max(Px(50), maxLines * fontSize * 14 + Px(pad) * 2)]

\* positionsOf that starts from the first size
RECURSIVE PushSizesNoZero(_, _, _)
PushSizesNoZero(sizes, i, pos) ==
    IF i > Len(sizes) THEN pos
    ELSE PushSizesNoZero(sizes, i + 1,
                         Append(pos, (IF Len(pos) = 0 THEN 0 ELSE pos[Len(pos)]) + sizes[i]))

positionsOfNoZero(sizes) == PushSizesNoZero(sizes, 1, << >>)

\* sizes.forEach(w => pos.push(pos[pos.length - 1] + w)), sizes i.. to go
RECURSIVE PushSizes(_, _, _)
PushSizes(sizes, i, pos) ==
    IF i > Len(sizes) THEN pos
    ELSE PushSizes(sizes, i + 1, Append(pos, pos[Len(pos)] + sizes[i]))

\* xPositions and yPositions
positionsOf(sizes) == PushSizes(sizes, 1, <<0>>)

\* one render of HandDrawnTable up to the offsets
renderLayout ==
    /\ last = NoOp
    /\ LET widths == colWidthsOf(data, customColumnWidths, widthScale)
           heights == rowHeightsOf(data, widths, customRowHeights, padding)
       IN /\ colWidths' = widths
          /\ rowHeights' = heights
          /\ xPositions' = positionsOf(widths)
          /\ yPositions' = positionsOf(heights)
    /\ last' = "renderLayout"
    /\ UNCHANGED <<heapVars, editorVars, pureVars, genVars, resizing, widthScale, padding>>

(***************************************************************************)
(* The resolver on every grid the data model allows up to LayoutRows x     *)
(* LayoutCols, with texts that wrap, that widen a column and that reach    *)
(* the 250 pixel cap, with overrides inside and beyond the grid.           *)
(***************************************************************************)
LayoutRows == 2
LayoutCols == 2

Rep(n) == [i \in 1..n |-> "N"]

LayoutTexts == <<EmptyText,
                 <<"N", SP, "N">>,
                 <<"N", NL, "N", SP, "N", SP, "N">>,
                 Rep(15),
                 Rep(30)>>

\* the grid d with text number seed + k in its k-th position when the cell
\* there is visible; hidden cells are empty as mergeCells leaves them
WithTexts(d, seed) ==
    [i \in 1..Len(d) |-> [j \in 1..Len(d[i]) |->
        IF d[i][j].hidden THEN d[i][j]
        ELSE [d[i][j] EXCEPT !.value =
                 LayoutTexts[((seed + (i - 1) * Len(d[i]) + (j - 1)) % Len(LayoutTexts)) + 1]]]]

LayoutGrids ==
    {<< >>} \cup UNION {{WithTexts(GridOf(R, C, t), seed) :
                            t \in Tilings(R, C, 0, {}, << >>), seed \in 0..(Len(LayoutTexts) - 1)} :
                          R \in 1..LayoutRows, C \in 1..LayoutCols}

\* overrides as the resize handles write them: for the first column, for the
\* second row, and at the index one past the largest grid
ColOverrides == {[k \in keys |-> IF k = 0 THEN 50 ELSE 200] : keys \in SUBSET {0, LayoutCols}}
RowOverrides == {[k \in keys |-> IF k = 1 THEN 90 ELSE 30] : keys \in SUBSET {1, LayoutRows}}

\* the width scale slider, in tenths
WidthScales == {5, DefaultWidthScale, 17}

InitLayout ==
    /\ data \in LayoutGrids
    /\ customColumnWidths \in ColOverrides
    /\ customRowHeights \in RowOverrides
    /\ selection = NoSelection
    /\ isSelecting = FALSE
    /\ last = NoOp
    /\ wrapIn = NoCall
    /\ wrapOut = << >>
    /\ roughness = DefaultRoughness
    /\ paths = {}
    /\ status = IDLE /\ inflight = 0 /\ timers = 0 /\ rawData = << >>
    /\ resizing = NoResize
    /\ widthScale \in WidthScales /\ padding = DefaultPadding
    /\ colWidths = << >> /\ rowHeights = << >>
    /\ xPositions = << >> /\ yPositions = << >>
    /\ heap = << >> /\ dataRef = 0

NextLayout == renderLayout

SpecLayout == InitLayout /\ [][NextLayout]_vars

\* the layout has been computed in this state
Resolved == last = "renderLayout"

\* C15 (under SpecLayout): each offset list has one entry more than there
\* are sizes, starts at 0, and every later entry is the entry before plus
\* the size before; positive sizes give strictly increasing offsets.
C15_PrefixSums ==
    Resolved =>
        /\ Len(xPositions) = ColCount(data) + 1 /\ Len(yPositions) = RowCount(data) + 1
        /\ Len(colWidths) = ColCount(data) /\ Len(rowHeights) = RowCount(data)
        /\ xPositions[1] = 0 /\ yPositions[1] = 0
        /\ \A k \in 1..Len(colWidths) : xPositions[k + 1] = xPositions[k] + colWidths[k]
        /\ \A k \in 1..Len(rowHeights) : yPositions[k + 1] = yPositions[k] + rowHeights[k]
        /\ (\A k \in 1..Len(colWidths) : colWidths[k] > 0) =>
               \A k \in 1..Len(colWidths) : xPositions[k] < xPositions[k + 1]
        /\ (\A k \in 1..Len(rowHeights) : rowHeights[k] > 0) =>
               \A k \in 1..Len(rowHeights) : yPositions[k] < yPositions[k + 1]

C15_Witness ==
    /\ Resolved
    /\ colWidths = <<500, 1200>>
    /\ xPositions = <<0, 500, 1700>>
    /\ Len(yPositions) = 3 /\ yPositions[3] = yPositions[2] + 900

\* the largest number of a non-empty finite set of numbers
Largest(S) == CHOOSE m \in S : \A x \in S : x <= m

\* the lengths of the newline-delimited segments of a text
SegmentLengths(text) ==
    LET cuts == {0, Len(text) + 1} \cup {i \in 1..Len(text) : text[i] = NL}
    IN {b - a - 1 : <<a, b>> \in {p \in cuts \X cuts :
                                     p[1] < p[2] /\ ~\E x \in cuts : p[1] < x /\ x < p[2]}}

\* the auto width of column c (0-based), in pixels
AutoWidth(d, c) ==
    Largest({120} \cup {Min(250, Max(120, 9 * Largest(SegmentLengths(At(d, r, c).value)))) :
                           r \in {x \in 0..(RowCount(d) - 1) :
                                     ~At(d, x, c).hidden /\ At(d, x, c).colSpan = 1}})

\* C16 (under SpecLayout): the resolved width of every column is its
\* override when one exists, else its auto width, times the width scale;
\* the auto width is the largest of 120 and min(250, max(120, 9 x longest
\* segment)) over the column's visible cells with colSpan = 1 only.
C16_ColumnWidths ==
    Resolved =>
        /\ Len(colWidths) = ColCount(data)
        /\ \A c \in 0..(ColCount(data) - 1) :
              colWidths[c + 1] = (IF c \in DOMAIN customColumnWidths
                                  THEN customColumnWidths[c]
                                  ELSE AutoWidth(data, c)) * widthScale

\* an overridden column next to an auto column widened by 15 characters,
\* under a 30-character cell that spans both
C16_Witness ==
    /\ Resolved
    /\ RowCount(data) = 2 /\ ColCount(data) = 2
    /\ At(data, 1, 0).colSpan = 2 /\ At(data, 1, 0).value = Rep(30)
    /\ At(data, 0, 1).value = Rep(15)
    /\ customColumnWidths = (0 :> 50)
    /\ widthScale = 17
    /\ colWidths = <<850, 2295>>

\* the text width of the cell at (r, c): its own column and the further
\* columns it spans, less the padding on both sides, never below 0
ContentWidth(d, r, c) ==
    LET own == {k \in 1..Len(colWidths) : k - 1 >= c /\ k - 1 < c + At(d, r, c).colSpan}
        RECURSIVE Sum(_)
        Sum(S) == IF S = {} THEN 0 ELSE LET k == CHOOSE x \in S : TRUE
                                        IN colWidths[k] + Sum(S \ {k})
    IN Max(0, Sum(own) - 2 * Px(padding))

\* the wrapped line count that decides the auto height of row r: the
\* largest among the cells with rowSpan = 1, and 1 at least
RowLines(d, r) ==
    Largest({1} \cup {Len(wrapText(At(d, r, c).value, ContentWidth(d, r, c),
                                   Px(IF r = 0 THEN 20 ELSE 16))) :
                         c \in {x \in 0..(ColCount(d) - 1) : At(d, r, x).rowSpan = 1}})

\* C17 (under SpecLayout): the resolved height of a row is its override
\* verbatim when one exists, else max(50, L x fontSize x 1.4 + 2 x padding)
\* with L the largest wrapped line count among the row's rowSpan = 1 cells.
C17_RowHeights ==
    Resolved =>
        /\ Len(rowHeights) = RowCount(data)
        /\ \A r \in 0..(RowCount(data) - 1) :
              rowHeights[r + 1] =
                  IF r \in DOMAIN customRowHeights
                  THEN Px(customRowHeights[r])
                  ELSE Max(Px(50), RowLines(data, r) * (IF r = 0 THEN 20 ELSE 16) * 14
                                       + 2 * Px(padding))

\* a header row of four wrapped lines above a row with an override, at a
\* width scale of 0.5
C17_Witness ==
    /\ Resolved
    /\ RowCount(data) = 2
    /\ widthScale = 5
    /\ customRowHeights = (1 :> 90)
    /\ rowHeights[2] = 900
    /\ rowHeights[1] = 4 * 280 + 200

\* the grid d with the one-line text "N" in every visible cell that is empty
Filled(d) ==
    [i \in 1..Len(d) |-> [j \in 1..Len(d[i]) |->
        IF ~d[i][j].hidden /\ d[i][j].value = EmptyText
        THEN [d[i][j] EXCEPT !.value = NewCellText] ELSE d[i][j]]]

\* C18 (under SpecLayout): an empty text wraps to zero lines at the width of
\* its cell; an empty cell weighs on its row's height as a cell of one line
\* does; a row of empty cells without override has height
\* max(50, fontSize x 1.4 + 2 x padding).
C18_EmptyText ==
    Resolved =>
        /\ \A p \in Positions(data) :
              At(data, p[1], p[2]).value = EmptyText =>
                  /\ wrapText(At(data, p[1], p[2]).value, ContentWidth(data, p[1], p[2]),
                              Px(IF p[1] = 0 THEN 20 ELSE 16)) = << >>
                  /\ LineCount(data, colWidths, padding, p[1] + 1, p[2] + 1) = 0
        /\ rowHeightsOf(Filled(data), colWidths, customRowHeights, padding) = rowHeights
        /\ \A r \in 0..(RowCount(data) - 1) :
              (/\ r \notin DOMAIN customRowHeights
               /\ \A c \in 0..(ColCount(data) - 1) : At(data, r, c).value = EmptyText)
                  => rowHeights[r + 1] = Max(Px(50), (IF r = 0 THEN 20 ELSE 16) * 14
                                                         + 2 * Px(padding))

\* a one-row grid whose only cell is empty, without overrides
C18_Witness ==
    /\ Resolved
    /\ RowCount(data) = 1 /\ ColCount(data) = 1
    /\ At(data, 0, 0).value = EmptyText
    /\ customRowHeights = EmptyMap
    /\ rowHeights = <<500>>

\* the overrides of `map` whose index is below n
Within(map, n) == [k \in {x \in DOMAIN map : x < n} |-> map[k]]

\* C19 (under SpecLayout): overrides at or beyond the column or row count
\* change no resolved width, height or offset, and the resolver yields a
\* positive number for every column and row (none missing, none NaN).
C19_StaleOverridesIgnored ==
    Resolved =>
        LET widths == colWidthsOf(data, Within(customColumnWidths, ColCount(data)), widthScale)
            heights == rowHeightsOf(data, widths, Within(customRowHeights, RowCount(data)),
                                    padding)
        IN /\ colWidths = widths
           /\ rowHeights = heights
           /\ xPositions = positionsOf(widths)
           /\ yPositions = positionsOf(heights)
           /\ Len(colWidths) = ColCount(data) /\ Len(rowHeights) = RowCount(data)
           /\ \A k \in 1..Len(colWidths) : colWidths[k] \in Nat \ {0}
           /\ \A k \in 1..Len(rowHeights) : rowHeights[k] \in Nat \ {0}

\* a one-cell grid laid out under a width override at index 2 and height
\* overrides at indices 1 and 2
C19_Witness ==
    /\ Resolved
    /\ RowCount(data) = 1 /\ ColCount(data) = 1
    /\ DOMAIN customColumnWidths = {2}
    /\ DOMAIN customRowHeights = {1, 2}
    /\ widthScale = 17
    /\ colWidths = <<120 * 17>>

(***************************************************************************)
(* Resizing by the handles of the editor's column and row headers.         *)
(***************************************************************************)
\* the largest override a drag may write in the model
MaxSize == 250

\* clientX / clientY of the mouse events
Pointer == {0, 100}

\* onMouseDown of the handle of column or row `index`
startResize(type, index, clientPos) ==
    /\ resizing = NoResize
    /\ IF type = "col" THEN index >= 0 /\ index < ColCount(data)
                       ELSE index >= 0 /\ index < RowCount(data)
    /\ resizing' = [type |-> type, index |-> index, startPos |-> clientPos,
                    startSize |-> IF type = "col"
                                  THEN IF index \in DOMAIN customColumnWidths
                                       THEN customColumnWidths[index] ELSE 120
                                  ELSE IF index \in DOMAIN customRowHeights
                                       THEN customRowHeights[index] ELSE 50]
    /\ last' = "startResize"
    /\ UNCHANGED <<heapVars, editorVars, pureVars, genVars, layoutVars>>

\* handleMouseMove that adds the displacement to the override of the moment
handleMouseMoveFromCurrent(clientPos) ==
    /\ resizing # NoResize
    /\ LET diff == clientPos - resizing.startPos
           map == IF resizing.type = "col" THEN customColumnWidths ELSE customRowHeights
           from == IF resizing.index \in DOMAIN map THEN map[resizing.index]
                   ELSE resizing.startSize
           size == Max(IF resizing.type = "col" THEN 50 ELSE 30, from + diff)
       IN /\ size <= MaxSize
          /\ IF resizing.type = "col"
             THEN /\ customColumnWidths' =
                         [k \in DOMAIN customColumnWidths \cup {resizing.index} |->
                             IF k = resizing.index THEN size ELSE customColumnWidths[k]]
                  /\ UNCHANGED customRowHeights
             ELSE /\ customRowHeights' =
                         [k \in DOMAIN customRowHeights \cup {resizing.index} |->
                             IF k = resizing.index THEN size ELSE customRowHeights[k]]
                  /\ UNCHANGED customColumnWidths
    /\ last' = "handleMouseMove"
    /\ UNCHANGED <<heapVars, data, selection, isSelecting, pureVars, genVars, resizing, layoutVars>>

\* handleMouseMove that writes startSize + diff as it is
handleMouseMoveNoFloor(clientPos) ==
    /\ resizing # NoResize
    /\ LET diff == clientPos - resizing.startPos
           size == resizing.startSize + diff
       IN /\ size <= MaxSize
          /\ IF resizing.type = "col"
             THEN /\ customColumnWidths' =
                         [k \in DOMAIN customColumnWidths \cup {resizing.index} |->
                             IF k = resizing.index THEN size ELSE customColumnWidths[k]]
                  /\ UNCHANGED customRowHeights
             ELSE /\ customRowHeights' =
                         [k \in DOMAIN customRowHeights \cup {resizing.index} |->
                             IF k = resizing.index THEN size ELSE customRowHeights[k]]
                  /\ UNCHANGED customColumnWidths
    /\ last' = "handleMouseMove"
    /\ UNCHANGED <<heapVars, data, selection, isSelecting, pureVars, genVars, resizing, layoutVars>>

\* the window's mousemove listener, registered while a resize is going on
handleMouseMove(clientPos) ==
    /\ resizing # NoResize
    /\ LET diff == clientPos - resizing.startPos
           size == Max(IF resizing.type = "col" THEN 50 ELSE 30, resizing.startSize + diff)
       IN /\ size <= MaxSize
          /\ IF resizing.type = "col"
             THEN /\ customColumnWidths' =
                         [k \in DOMAIN customColumnWidths \cup {resizing.index} |->
                             IF k = resizing.index THEN size ELSE customColumnWidths[k]]
                  /\ UNCHANGED customRowHeights
             ELSE /\ customRowHeights' =
                         [k \in DOMAIN customRowHeights \cup {resizing.index} |->
                             IF k = resizing.index THEN size ELSE customRowHeights[k]]
                  /\ UNCHANGED customColumnWidths
    /\ last' = "handleMouseMove"
    /\ UNCHANGED <<heapVars, data, selection, isSelecting, pureVars, genVars, resizing, layoutVars>>

\* the window's mouseup listener, registered while a resize is going on
handleMouseUp ==
    /\ resizing # NoResize
    /\ resizing' = NoResize
    /\ last' = "handleMouseUp"
    /\ UNCHANGED <<heapVars, editorVars, pureVars, genVars, layoutVars>>

InitResize == Init

NextResize ==
    \/ \E type \in {"col", "row"}, index \in Rows \cup Cols, clientPos \in Pointer :
          startResize(type, index, clientPos)
    \/ \E clientPos \in Pointer : handleMouseMove(clientPos)
    \/ handleMouseUp

SpecResize == InitResize /\ [][NextResize]_vars

\* C13 (under SpecResize): every column-width override is >= 50, every
\* row-height override is >= 30, and every width and height resolved from
\* them is positive.
C13_ResizeFloors ==
    /\ \A k \in DOMAIN customColumnWidths : customColumnWidths[k] >= 50
    /\ \A k \in DOMAIN customRowHeights : customRowHeights[k] >= 30
    /\ LET widths == colWidthsOf(data, customColumnWidths, widthScale)
           heights == rowHeightsOf(data, widths, customRowHeights, padding)
       IN /\ \A k \in 1..Len(widths) : widths[k] > 0
          /\ \A k \in 1..Len(heights) : heights[k] > 0

\* a column dragged 100 to the left from 120 and a row dragged 100 up from 50
C13_Witness ==
    /\ last = "handleMouseMove"
    /\ 0 \in DOMAIN customColumnWidths /\ customColumnWidths[0] = 50
    /\ 1 \in DOMAIN customRowHeights /\ customRowHeights[1] = 30

(***************************************************************************)
(* The empty grid.                                                         *)
(***************************************************************************)
OneCellGrid == << <<TableCell(NewCellText)>> >>

\* C14 (under Spec): removing the last row or the last column gives the
\* zero-row grid and no step gives a row without cells; on the zero-row grid
\* the resolver yields no width, no height and no line segment, the
\* Initialize button of the empty branch is available exactly there, and
\* addRow, addCol and Initialize give a 1x1 grid.
C14_EmptyGrid ==
    [][/\ (last' = "removeRow" /\ RowCount(data) = 1) => data' = << >>
       /\ (last' = "removeCol" /\ ColCount(data) = 1) => data' = << >>
       /\ \A i \in 1..Len(data') : Len(data'[i]) > 0
       /\ (ENABLED initializeTable) <=> (data = << >>)
       /\ data' = << >> =>
             /\ colWidthsOf(data', customColumnWidths', widthScale') = << >>
             /\ rowHeightsOf(data', << >>, customRowHeights', padding') = << >>
             /\ positionsOf(<< >>) = <<0>>
             /\ Paths(data', roughness') = {}
       /\ (data = << >> /\ last' \in {"addRow", "addCol", "initializeTable"}) =>
             data' = OneCellGrid]_vars

\* the grid was emptied and then initialised again
C14_Witness ==
    /\ last = "initializeTable"
    /\ data = OneCellGrid

(***************************************************************************)
(* Spans and owners against the size of the grid.                          *)
(***************************************************************************)
\* C21 (under Spec): the span rectangle of every visible cell ends inside
\* the grid and the owner coordinates of every hidden cell lie inside the
\* grid, so that yPositions[r + rowSpan], xPositions[c + colSpan] and
\* data[ownerRow][ownerCol] exist.
C21_SpansInsideGrid ==
    \A p \in Positions(data) :
        LET cell == At(data, p[1], p[2])
        IN IF cell.hidden
           THEN InGrid(data, IF cell.ownerRow # undefined THEN cell.ownerRow ELSE p[1],
                             IF cell.ownerCol # undefined THEN cell.ownerCol ELSE p[2])
           ELSE /\ p[1] + cell.rowSpan <= RowCount(data)
                /\ p[2] + cell.colSpan <= ColCount(data)

(***************************************************************************)
(* Reset to the default table while the editor is open.  App starts from   *)
(* the table saved in localStorage, which may be larger than DEFAULT_DATA. *)
(***************************************************************************)
\* a saved table with one row more than the default table
SavedData == [i \in 1..(MaxRows + 1) |-> [j \in 1..MaxCols |-> TableCell(NewCellText)]]

\* handleReset, the confirm dialog accepted; the editor stays mounted and
\* keeps its selection
handleReset ==
    /\ data' = InitData
    /\ customColumnWidths' = EmptyMap
    /\ customRowHeights' = EmptyMap
    /\ roughness' = DefaultRoughness
    /\ widthScale' = DefaultWidthScale
    /\ padding' = DefaultPadding
    /\ last' = "handleReset"
    /\ UNCHANGED <<heapVars, selection, isSelecting, wrapIn, wrapOut, paths, genVars, resizing,
                   colWidths, rowHeights, xPositions, yPositions>>

InitReset ==
    /\ data = SavedData
    /\ customColumnWidths = EmptyMap
    /\ customRowHeights = EmptyMap
    /\ selection = NoSelection
    /\ isSelecting = FALSE
    /\ last = NoOp
    /\ wrapIn = NoCall
    /\ wrapOut = << >>
    /\ roughness = DefaultRoughness
    /\ paths = {}
    /\ AppAtRest

NextReset ==
    \/ \E r \in 0..MaxRows, c \in Cols : handleMouseDown(r, c)
    \/ \E r \in 0..MaxRows, c \in Cols : handleMouseEnter(r, c)
    \/ endSelect
    \/ \E index \in 0..MaxRows : removeRow(index)
    \/ \E index \in Cols : removeCol(index)
    \/ mergeCells
    \/ unmergeCells
    \/ handleReset

SpecReset == InitReset /\ [][NextReset]_vars

\* C22 (under SpecReset): whenever the Merge or the Unmerge button is
\* enabled, both corners of the selection are cells of the current grid.
C22_SelectionInsideGrid ==
    (canMerge \/ canUnmerge) =>
        /\ InGrid(data, selection.start.r, selection.start.c)
        /\ InGrid(data, selection.end.r, selection.end.c)

(***************************************************************************)
(* The status flag over time.  A callback handed to setTimeout runs once   *)
(* its delay has passed, so the timer step is weakly fair; nothing makes   *)
(* the service answer, so the resolution of a request is not.              *)
(***************************************************************************)
SpecGenerateFair == SpecGenerate /\ WF_vars(statusTimeout)

\* C23 (under SpecGenerateFair): the click sets the flag to LOADING, the
\* resolution sets it to SUCCESS or ERROR, and from every state in which a
\* request has resolved and the flag is not IDLE the flag becomes IDLE.
C23_StatusReturnsToIdle ==
    /\ [][/\ last' = "handleGenerate" => status' = LOADING
          /\ last' = "generateSucceeded" => status' = SUCCESS
          /\ last' = "generateFailed" => status' = ERROR]_vars
    /\ (status \in {SUCCESS, ERROR}) ~> (status = IDLE)
    /\ (timers > 0) ~> (status = IDLE)

\* a request failed, its timer fired, and the flag is back to IDLE with no
\* request left
C23_Witness ==
    /\ last = "statusTimeout"
    /\ status = IDLE /\ inflight = 0 /\ timers = 0
    /\ rawData = << >> /\ data = InitData

(***************************************************************************)
(* The resize session.                                                     *)
(***************************************************************************)
\* the map new is the map old with size at index and nothing else changed
SetsOnly(old, new, index, size) ==
    /\ DOMAIN new = DOMAIN old \cup {index}
    /\ new[index] = size
    /\ \A k \in DOMAIN old \ {index} : new[k] = old[k]

\* C25 (under SpecResize): mouse-down on a handle opens a session whose
\* startSize is the override of that index or the default (120, 50); each
\* mouse move of the session sets the override at the dragged index alone to
\* max(floor, startSize + displacement since mouse-down) and leaves the
\* other map, the grid and the session as they were; mouse-up closes the
\* session; no override changes outside a session.
C25_ResizeSession ==
    [][/\ last' = "startResize" =>
             /\ resizing = NoResize /\ resizing' # NoResize
             /\ resizing'.startSize =
                   IF resizing'.type = "col"
                   THEN IF resizing'.index \in DOMAIN customColumnWidths
                        THEN customColumnWidths[resizing'.index] ELSE 120
                   ELSE IF resizing'.index \in DOMAIN customRowHeights
                        THEN customRowHeights[resizing'.index] ELSE 50
             /\ UNCHANGED <<heapVars, data, customColumnWidths, customRowHeights>>
       /\ last' = "handleMouseMove" =>
             /\ resizing # NoResize /\ resizing' = resizing
             /\ data' = data
             /\ \E clientPos \in Pointer :
                   LET moved == clientPos - resizing.startPos
                   IN IF resizing.type = "col"
                      THEN /\ SetsOnly(customColumnWidths, customColumnWidths', resizing.index,
                                       Max(50, resizing.startSize + moved))
                           /\ customRowHeights' = customRowHeights
                      ELSE /\ SetsOnly(customRowHeights, customRowHeights', resizing.index,
                                       Max(30, resizing.startSize + moved))
                           /\ customColumnWidths' = customColumnWidths
       /\ last' = "handleMouseUp" =>
             /\ resizing # NoResize /\ resizing' = NoResize
             /\ UNCHANGED <<heapVars, data, customColumnWidths, customRowHeights>>
       /\ (customColumnWidths' # customColumnWidths \/ customRowHeights' # customRowHeights) =>
             (resizing # NoResize /\ last' = "handleMouseMove")]_vars

\* column 0 went from 120 up to 220 and back to 120 within one session that
\* began at pointer 0, while column 1 kept an earlier override of 220
C25_Witness ==
    /\ last = "handleMouseMove"
    /\ resizing = [type |-> "col", index |-> 0, startPos |-> 0, startSize |-> 120]
    /\ customColumnWidths = (0 :> 120 @@ 1 :> 220)

\* ---------------------------------------------------------------------------
\* Editing a cell, followed object by object.  handleCellChange builds the new
\* grid out of three fresh objects (outer array, row array, cell) and shares
\* every other row and cell with the previous grid.  An object of the heap is a
\* record: an array holds the references of its items, a cell holds the
\* TableCell; a reference is the object's index in the heap.
\* ---------------------------------------------------------------------------

MaxEdits == 2

NoCell == [id |-> ""]

ArrayObject(items) == [kind |-> "array", items |-> items, cell |-> NoCell]

CellObject(cell) == [kind |-> "cell", items |-> << >>, cell |-> cell]

\* the grid value reached from the outer array `ref`
Deref(h, ref) ==
    [i \in 1..Len(h[ref].items) |->
        [j \in 1..Len(h[h[ref].items[i]].items) |->
            h[h[h[ref].items[i]].items[j]].cell]]

\* the cells carry the id generateId gave them
WithIds(d) ==
    [i \in 1..RowCount(d) |->
        [j \in 1..ColCount(d) |->
            [id |-> ToString((i - 1) * ColCount(d) + j)] @@ d[i][j]]]

\* a grid laid out as objects: the outer array, then the rows, then the cells
HeapOf(d) ==
    LET R == RowCount(d)
        C == ColCount(d)
    IN  <<ArrayObject([i \in 1..R |-> 1 + i])>>
        \o [i \in 1..R |-> ArrayObject([j \in 1..C |-> 1 + R + (i - 1) * C + j])]
        \o [k \in 1..(R * C) |-> CellObject(d[((k - 1) \div C) + 1][((k - 1) % C) + 1])]

\* handleCellChange without the copy of the row: the new cell is stored into
\* the row array the previous grid still holds
handleCellChangeSharedRow(rowIndex, colIndex, value) ==
    LET newData == Len(heap) + 1
        cell    == Len(heap) + 2
        row     == heap[dataRef].items[rowIndex + 1]
        h1      == Append(heap, ArrayObject(heap[dataRef].items))
        h2      == Append(h1, CellObject(
                       [h1[h1[row].items[colIndex + 1]].cell EXCEPT !.value = value]))
        h3      == [h2 EXCEPT ![row].items[colIndex + 1] = cell]
    IN  /\ dataRef # 0
        /\ InGrid(data, rowIndex, colIndex)
        /\ ~At(data, rowIndex, colIndex).hidden
        /\ Len(heap) - Len(HeapOf(data)) < 3 * MaxEdits
        /\ heap' = h3
        /\ dataRef' = newData
        /\ data' = Deref(h3, newData)
        /\ last' = "handleCellChange"
        /\ UNCHANGED <<pureVars, genVars, resizing, layoutVars, customColumnWidths,
                       customRowHeights, selection, isSelecting>>

\* handleCellChange, statement by statement on the objects
handleCellChangeObjects(rowIndex, colIndex, value) ==
    LET newData == Len(heap) + 1
        cell    == Len(heap) + 2
        newRow  == Len(heap) + 3
        \* const newData = [...data]
        h1      == Append(heap, ArrayObject(heap[dataRef].items))
        \* const cell = { ...newData[rowIndex][colIndex], value }
        h2      == Append(h1, CellObject(
                       [h1[h1[h1[newData].items[rowIndex + 1]].items[colIndex + 1]].cell
                           EXCEPT !.value = value]))
        \* newData[rowIndex] = [...newData[rowIndex]]
        h3      == [Append(h2, ArrayObject(h2[h2[newData].items[rowIndex + 1]].items))
                       EXCEPT ![newData].items[rowIndex + 1] = newRow]
        \* newData[rowIndex][colIndex] = cell
        h4      == [h3 EXCEPT ![h3[newData].items[rowIndex + 1]].items[colIndex + 1] = cell]
    IN  /\ dataRef # 0
        /\ InGrid(data, rowIndex, colIndex)
        /\ ~At(data, rowIndex, colIndex).hidden
        /\ Len(heap) - Len(HeapOf(data)) < 3 * MaxEdits
        /\ heap' = h4
        \* setData(newData)
        /\ dataRef' = newData
        /\ data' = Deref(h4, newData)
        /\ last' = "handleCellChange"
        /\ UNCHANGED <<pureVars, genVars, resizing, layoutVars, customColumnWidths,
                       customRowHeights, selection, isSelecting>>

\* the grids an edit starts from: the default-sized grid, and the same grid
\* with its first column merged, both with overrides in place
EditGrids ==
    { WithIds(InitData),
      MergedData(WithIds(InitData), [minR |-> 0, maxR |-> 1, minC |-> 0, maxC |-> 0]) }

InitEdit ==
    /\ status = IDLE /\ inflight = 0 /\ timers = 0 /\ rawData = << >>
    /\ resizing = NoResize
    /\ widthScale = DefaultWidthScale /\ padding = DefaultPadding
    /\ colWidths = << >> /\ rowHeights = << >>
    /\ xPositions = << >> /\ yPositions = << >>
    /\ data \in EditGrids
    /\ heap = HeapOf(data)
    /\ dataRef = 1
    /\ customColumnWidths = (0 :> 150)
    /\ customRowHeights = (1 :> 60)
    /\ selection = NoSelection
    /\ isSelecting = FALSE
    /\ last = NoOp
    /\ wrapIn = NoCall /\ wrapOut = << >>
    /\ roughness = DefaultRoughness /\ paths = {}

NextEdit ==
    \E rowIndex \in Rows, colIndex \in Cols, value \in EditValues :
        handleCellChangeObjects(rowIndex, colIndex, value)

SpecEdit == InitEdit /\ [][NextEdit]_vars

\* C24: editing the text of the cell at (r, c) changes only that cell's value:
\* the grid shape, the cell's id, rowSpan, colSpan, hidden and owner fields,
\* every other cell and both override maps are unchanged, and the grid the
\* previous reference leads to is the grid it led to before the edit (no
\* object that existed before the edit is written).
C24_EditChangesOnlyValue ==
    [][ (last' = "handleCellChange") =>
          /\ \E r \in 0..(RowCount(data) - 1), c \in 0..(ColCount(data) - 1) :
                /\ ~At(data, r, c).hidden
                /\ data' = SetCell(data, r, c,
                               [At(data, r, c) EXCEPT !.value = At(data', r, c).value])
                /\ At(data', r, c).id = At(data, r, c).id
                /\ At(data', r, c).rowSpan = At(data, r, c).rowSpan
                /\ At(data', r, c).colSpan = At(data, r, c).colSpan
                /\ At(data', r, c).hidden = At(data, r, c).hidden
                /\ At(data', r, c).ownerRow = At(data, r, c).ownerRow
                /\ At(data', r, c).ownerCol = At(data, r, c).ownerCol
          /\ RowCount(data') = RowCount(data)
          /\ ColCount(data') = ColCount(data)
          /\ customColumnWidths' = customColumnWidths
          /\ customRowHeights' = customRowHeights
          /\ data = Deref(heap, dataRef)
          /\ Deref(heap', dataRef) = data
          /\ SubSeq(heap', 1, Len(heap)) = heap
          /\ data' = Deref(heap', dataRef')
    ]_vars

\* the owner of the merged column was edited twice: the second edit left the
\* grid of the first edit, still reachable from its reference, as it was
C24_Witness ==
    /\ last = "handleCellChange"
    /\ Len(heap) = Len(HeapOf(data)) + 6
    /\ At(data, 0, 0).rowSpan = 2
    /\ At(data, 0, 0).id = "1"
    /\ At(data, 0, 0).value = NewCellText
    /\ At(Deref(heap, dataRef - 3), 0, 0).value = EmptyText
    /\ At(Deref(heap, 1), 0, 0).value \notin EditValues
    /\ At(Deref(heap, 1), 1, 0).hidden
    /\ customColumnWidths = (0 :> 150)

====
